---- MODULE Spec2Model ----
(***************************************************************************)
(* Model of gsiatras/stripe_api: the /create-subscription handler          *)
(* (app.py, utils.py, models.py) against a payment provider holding price  *)
(* and checkout-session resources, and the /webhook handler.               *)
(***************************************************************************)
EXTENDS Integers, Sequences, FiniteSets, TLC

(* ---------------------------------------------------------------------- *)
(* Bounds                                                                  *)
(* ---------------------------------------------------------------------- *)

\* Number of /create-subscription requests in flight at once.
NumReqs == 2

\* Number of /webhook requests in flight at once.
NumWebhooks == 2

Reqs == 1..NumReqs

WReqs == 1..NumWebhooks

(* ---------------------------------------------------------------------- *)
(* Configuration (app.py:13-18) and program constants                      *)
(* ---------------------------------------------------------------------- *)

None == [obj |-> "None", n |-> 0]

PriceId(n) == [obj |-> "price", n |-> n]

\* standard_price_id = os.getenv('STANDARD_SUB_KEY')
standard_price_id == [obj |-> "price_standard", n |-> 0]

\* custom_sub_id = os.getenv('CUSTOM_SUB_ID')
custom_sub_id == "prod_custom"

\* stripe.Price.list(product=product_id, limit=100)
PageLimit == 100

\* the default of get_existing_price / create_new_price's currency parameter
DefaultCurrency == "eur"

(* ---------------------------------------------------------------------- *)
(* request.price is a float: IEEE-754 double arithmetic on 20-bit limbs.   *)
(* A double is sign * (m2*B^2 + m1*B + m0) * 2^exp with a 53-bit mantissa. *)
(* ---------------------------------------------------------------------- *)

B == 2^20

Pow2(k) == 2^k

\* The values of SubscriptionRequest.price the requests carry: dec is the JSON
\* number in thousandths, the other fields the double nearest to it.
\*    1 (the field's default), 19.99, -0.015
PriceInputs ==
    { [dec |-> 1000,  sign |-> 1,  m2 |-> 4096, m1 |-> 0,      m0 |-> 0,      exp |-> -52],
      [dec |-> 19990, sign |-> 1,  m2 |-> 5117, m1 |-> 461373, m0 |-> 461373, exp |-> -48],
      [dec |-> -15,   sign |-> -1, m2 |-> 7864, m1 |-> 335544, m0 |-> 335544, exp |-> -59] }

\* request.price * 100: the exact 60-bit product, rounded to nearest-even on
\* 53 bits.
FloatMul100(x) ==
    LET p0 == x.m0 * 100
        n0 == p0 % B
        p1 == x.m1 * 100 + (p0 \div B)
        n1 == p1 % B
        n2 == x.m2 * 100 + (p1 \div B)
        s  == IF n2 >= Pow2(19) THEN 7 ELSE 6
        q0 == (n0 \div Pow2(s)) + (n1 % Pow2(s)) * Pow2(20 - s)
        q1 == (n1 \div Pow2(s)) + (n2 % Pow2(s)) * Pow2(20 - s)
        q2 == n2 \div Pow2(s)
        rem == n0 % Pow2(s)
        half == Pow2(s - 1)
        up == rem > half \/ (rem = half /\ q0 % 2 = 1)
        r0 == IF up THEN q0 + 1 ELSE q0
        r1 == q1 + (r0 \div B)
        r2 == q2 + (r1 \div B)
    IN  IF x.m2 = 0 /\ x.m1 = 0 /\ x.m0 = 0
        THEN x
        ELSE [dec |-> x.dec, sign |-> x.sign,
              m2 |-> r2, m1 |-> r1 % B, m0 |-> r0 % B, exp |-> x.exp + s]

\* int(x): truncation toward zero.  The inputs keep |x| below 2^31.
FloatToInt(x) ==
    LET k == 0 - x.exp
        mag == IF k >= 61 THEN 0
               ELSE IF k >= 40 THEN x.m2 \div Pow2(k - 40)
               ELSE x.m2 * Pow2(40 - k) + (x.m1 \div Pow2(k - 20))
    IN  x.sign * mag

\* amount_in_cents = int(request.price * 100)
AmountInCents(price) == FloatToInt(FloatMul100(price))

\* floor(P * 100) of the decimal P the request carries
FloorCents(price) == price.dec \div 10

(* ---------------------------------------------------------------------- *)
(* State                                                                   *)
(* ---------------------------------------------------------------------- *)

VARIABLES
    prices,          \* the provider's price resources, in creation order
    sessions,        \* the provider's checkout sessions, in creation order
    pc,              \* per request: idle, lookup, create, session, done
    request,         \* per request: the SubscriptionRequest
    amount_in_cents, \* per request: local of the custom branch
    price_id,        \* per request: local
    sub_mode,        \* per request: local
    calls,           \* per request: the provider calls issued, in order
    response,        \* per request: the HTTP response
    startLen,        \* per request: Len(prices) when the request arrived
    doneAtStart,     \* per request: the requests answered before it arrived
    wpc,             \* per webhook: idle, verify, dispatch, respond, done
    wrequest,        \* per webhook: body and stripe-signature header
    event,           \* per webhook: the constructed event
    wread,           \* per webhook: the event fields the handler has read
    wlog,            \* per webhook: what the handler printed
    wresponse        \* per webhook: the HTTP response

cvars == <<prices, sessions, pc, request, amount_in_cents, price_id, sub_mode,
           calls, response, startLen, doneAtStart>>

wvars == <<wpc, wrequest, event, wread, wlog, wresponse>>

vars == <<prices, sessions, pc, request, amount_in_cents, price_id, sub_mode,
          calls, response, startLen, doneAtStart,
          wpc, wrequest, event, wread, wlog, wresponse>>

(* ---------------------------------------------------------------------- *)
(* The provider                                                            *)
(* ---------------------------------------------------------------------- *)

Price(n, amount, currency, product) ==
    [id |-> PriceId(n), unit_amount |-> amount, currency |-> currency, product |-> product]

Min(S) == CHOOSE x \in S : \A y \in S : x <= y

Reverse(s) == [i \in 1..Len(s) |-> s[Len(s) + 1 - i]]

\* stripe.Price.list(product=..., limit=...): one page, most recent first.
\* Iterating the returned list object visits that page only.
PriceList(store, product_id, limit) ==
    LET ofProduct(p) == p.product = product_id
        all == SelectSeq(Reverse(store), ofProduct)
    IN  SubSeq(all, 1, IF Len(all) < limit THEN Len(all) ELSE limit)

get_existing_price(store, product_id, amount, currency) ==
    LET page == PriceList(store, product_id, PageLimit)
        hits == {i \in 1..Len(page) :
                    page[i].unit_amount = amount /\ page[i].currency = currency}
    IN  IF hits = {} THEN None ELSE page[Min(hits)].id

create_new_price(store, product_id, amount, currency) ==
    Append(store, Price(Len(store) + 1, amount, currency, product_id))

\* The stores the provider may hold when the first request arrives: no two
\* prices of one product share amount and currency.
FillerStore == [i \in 1..PageLimit |-> Price(i + 1, 100000 + i, DefaultCurrency, custom_sub_id)]

InitialStores ==
    { << >>,
      << Price(1, 100, DefaultCurrency, custom_sub_id) >>,
      << Price(1, 100, "usd", custom_sub_id), Price(2, 100, DefaultCurrency, "prod_other") >>,
      << Price(1, 100, DefaultCurrency, custom_sub_id) >> \o FillerStore }

(* ---------------------------------------------------------------------- *)
(* Records                                                                 *)
(* ---------------------------------------------------------------------- *)

SubscriptionTypes == {"standard", "custom", "premium"}

Emails == {"a@b.com"}

NoRequest == [subscription_type |-> "", user_email |-> "", price |-> CHOOSE p \in PriceInputs : p.dec = 1000]

NoResponse == [status |-> 0, url |-> 0, detail |-> <<>>]

Success(url) == [status |-> 200, url |-> url, detail |-> <<>>]

\* raise HTTPException(status_code=400, detail=f"{prefix}{message}")
HTTPException(prefix, message) == [status |-> 400, url |-> 0, detail |-> <<prefix, message>>]

Call(op, ok, amount, price, mode, result) ==
    [op |-> op, ok |-> ok, amount |-> amount, price |-> price, mode |-> mode, result |-> result]

ProviderMessages == {"provider message"}


\* Mutant: the provider error is swallowed and a success payload returned.
StripeErrorSwallowed(message) == Success(0)

\* except stripe.error.StripeError as e: ... detail=f"Stripe error: {e.user_message}"
StripeErrorResponse(message) == HTTPException("Stripe error: ", message)

\* except Exception as e: ... detail=f"An error occurred: {str(e)}"
ExceptionResponse(message) == HTTPException("An error occurred: ", message)

InvalidTypeMessage == "Invalid subscription type. Must be 'standard' or 'custom'."

(* ---------------------------------------------------------------------- *)
(* /create-subscription (app.py:21-75).  A step is the handler's code up   *)
(* to and including its next provider call.                                *)
(* ---------------------------------------------------------------------- *)

\* Mutant: the standard branch resolves its price like the custom branch.
BranchStandardLooksUp(req) ==
    IF req.subscription_type \in {"standard", "custom"}
    THEN [next |-> "lookup", price_id |-> None, sub_mode |-> "",
          amount |-> AmountInCents(req.price)]
    ELSE [next |-> "ValueError", price_id |-> None, sub_mode |-> "", amount |-> 0]

\* Mutant: no else branch, an unknown type falls through as standard.
BranchNoElse(req) ==
    IF req.subscription_type = "custom"
    THEN [next |-> "lookup", price_id |-> None, sub_mode |-> "",
          amount |-> AmountInCents(req.price)]
    ELSE [next |-> "session", price_id |-> standard_price_id, sub_mode |-> "subscription",
          amount |-> 0]

\* The if / elif / else on request.subscription_type, up to the first
\* provider call of the branch taken.
Branch(req) ==
    IF req.subscription_type = "standard"
    THEN [next |-> "session", price_id |-> standard_price_id, sub_mode |-> "subscription",
          amount |-> 0]
    ELSE IF req.subscription_type = "custom"
    THEN [next |-> "lookup", price_id |-> None, sub_mode |-> "",
          amount |-> AmountInCents(req.price)]
    ELSE [next |-> "ValueError", price_id |-> None, sub_mode |-> "", amount |-> 0]

Init ==
    /\ prices \in InitialStores
    /\ sessions = << >>
    /\ pc = [r \in Reqs |-> "idle"]
    /\ request = [r \in Reqs |-> NoRequest]
    /\ amount_in_cents = [r \in Reqs |-> 0]
    /\ price_id = [r \in Reqs |-> None]
    /\ sub_mode = [r \in Reqs |-> ""]
    /\ calls = [r \in Reqs |-> << >>]
    /\ response = [r \in Reqs |-> NoResponse]
    /\ startLen = [r \in Reqs |-> 0]
    /\ doneAtStart = [r \in Reqs |-> {}]
    /\ wpc = [w \in WReqs |-> "idle"]
    /\ wrequest = [w \in WReqs |-> [payload |-> "", sig_header |-> "", type |-> "", customer_email |-> ""]]
    /\ event = [w \in WReqs |-> [type |-> "", customer_email |-> ""]]
    /\ wread = [w \in WReqs |-> {}]
    /\ wlog = [w \in WReqs |-> << >>]
    /\ wresponse = [w \in WReqs |-> NoResponse]

\* A request arrives and the handler runs to its first provider call, or to
\* the ValueError of the else branch.
Begin(r) ==
    /\ pc[r] = "idle"
    /\ \E t \in SubscriptionTypes, e \in Emails, p \in PriceInputs :
         LET req == [subscription_type |-> t, user_email |-> e, price |-> p]
             b == Branch(req)
         IN  /\ request' = [request EXCEPT ![r] = req]
             /\ startLen' = [startLen EXCEPT ![r] = Len(prices)]
             /\ doneAtStart' = [doneAtStart EXCEPT ![r] = {q \in Reqs : pc[q] = "done"}]
             /\ price_id' = [price_id EXCEPT ![r] = b.price_id]
             /\ sub_mode' = [sub_mode EXCEPT ![r] = b.sub_mode]
             /\ amount_in_cents' = [amount_in_cents EXCEPT ![r] = b.amount]
             /\ IF b.next = "ValueError"
                THEN /\ pc' = [pc EXCEPT ![r] = "done"]
                     /\ response' = [response EXCEPT ![r] = ExceptionResponse(InvalidTypeMessage)]
                ELSE /\ pc' = [pc EXCEPT ![r] = b.next]
                     /\ UNCHANGED response
    /\ UNCHANGED <<prices, sessions, calls, wvars>>

\* Mutant: a failed lookup is retried.
LookupRetried(r) ==
    /\ pc[r] = "lookup"
    /\ \/ LET found == get_existing_price(prices, custom_sub_id, amount_in_cents[r], DefaultCurrency)
          IN  /\ calls' = [calls EXCEPT ![r] =
                    Append(@, Call("Price.list", TRUE, amount_in_cents[r], None, "", found))]
              /\ price_id' = [price_id EXCEPT ![r] = found]
              /\ IF found = None
                 THEN /\ pc' = [pc EXCEPT ![r] = "create"]
                      /\ UNCHANGED sub_mode
                 ELSE /\ pc' = [pc EXCEPT ![r] = "session"]
                      /\ sub_mode' = [sub_mode EXCEPT ![r] = "payment"]
       \/ /\ Len(calls[r]) < 2
          /\ calls' = [calls EXCEPT ![r] =
                Append(@, Call("Price.list", FALSE, amount_in_cents[r], None, "", None))]
          /\ UNCHANGED <<pc, price_id, sub_mode>>
    /\ UNCHANGED <<prices, sessions, request, amount_in_cents, response, startLen, doneAtStart, wvars>>

\* price_id = get_existing_price(custom_sub_id, amount_in_cents)
Lookup(r) ==
    /\ pc[r] = "lookup"
    /\ \/ LET found == get_existing_price(prices, custom_sub_id, amount_in_cents[r], DefaultCurrency)
          IN  /\ calls' = [calls EXCEPT ![r] =
                    Append(@, Call("Price.list", TRUE, amount_in_cents[r], None, "", found))]
              /\ price_id' = [price_id EXCEPT ![r] = found]
              /\ IF found = None
                 THEN /\ pc' = [pc EXCEPT ![r] = "create"]
                      /\ UNCHANGED sub_mode
                 ELSE /\ pc' = [pc EXCEPT ![r] = "session"]
                      /\ sub_mode' = [sub_mode EXCEPT ![r] = "payment"]
              /\ UNCHANGED response
       \/ \E m \in ProviderMessages :
              /\ calls' = [calls EXCEPT ![r] =
                    Append(@, Call("Price.list", FALSE, amount_in_cents[r], None, "", None))]
              /\ response' = [response EXCEPT ![r] = StripeErrorResponse(m)]
              /\ pc' = [pc EXCEPT ![r] = "done"]
              /\ UNCHANGED <<price_id, sub_mode>>
    /\ UNCHANGED <<prices, sessions, request, amount_in_cents, startLen, doneAtStart, wvars>>

\* price_id = create_new_price(custom_sub_id, amount_in_cents); sub_mode = 'payment'
\* The provider refuses a negative unit_amount.
Create(r) ==
    /\ pc[r] = "create"
    /\ \/ /\ amount_in_cents[r] >= 0
          /\ prices' = create_new_price(prices, custom_sub_id, amount_in_cents[r], DefaultCurrency)
          /\ calls' = [calls EXCEPT ![r] =
                Append(@, Call("Price.create", TRUE, amount_in_cents[r], None, "",
                               prices'[Len(prices')].id))]
          /\ price_id' = [price_id EXCEPT ![r] = prices'[Len(prices')].id]
          /\ sub_mode' = [sub_mode EXCEPT ![r] = "payment"]
          /\ pc' = [pc EXCEPT ![r] = "session"]
          /\ UNCHANGED response
       \/ \E m \in ProviderMessages :
              /\ calls' = [calls EXCEPT ![r] =
                    Append(@, Call("Price.create", FALSE, amount_in_cents[r], None, "", None))]
              /\ response' = [response EXCEPT ![r] = StripeErrorResponse(m)]
              /\ pc' = [pc EXCEPT ![r] = "done"]
              /\ UNCHANGED <<prices, price_id, sub_mode>>
    /\ UNCHANGED <<sessions, request, amount_in_cents, startLen, doneAtStart, wvars>>

\* The arguments of stripe.checkout.Session.create
CheckoutSession(n, req, price, mode) ==
    [url |-> n, payment_method_types |-> <<"card">>,
     line_items |-> << [price |-> price, quantity |-> 1] >>,
     mode |-> mode, customer_email |-> req.user_email,
     success_url |-> "/success.html", cancel_url |-> "/cancel.html",
     metadata |-> [user_email |-> req.user_email]]

\* checkout_session = stripe.checkout.Session.create(...); return {"url": ...}
Session(r) ==
    /\ pc[r] = "session"
    /\ \/ LET s == CheckoutSession(Len(sessions) + 1, request[r], price_id[r], sub_mode[r])
          IN  /\ sessions' = Append(sessions, s)
              /\ calls' = [calls EXCEPT ![r] =
                    Append(@, Call("Session.create", TRUE, 0, price_id[r], sub_mode[r], None))]
              /\ response' = [response EXCEPT ![r] = Success(s.url)]
       \/ \E m \in ProviderMessages :
              /\ calls' = [calls EXCEPT ![r] =
                    Append(@, Call("Session.create", FALSE, 0, price_id[r], sub_mode[r], None))]
              /\ response' = [response EXCEPT ![r] = StripeErrorResponse(m)]
              /\ UNCHANGED sessions
    /\ pc' = [pc EXCEPT ![r] = "done"]
    /\ UNCHANGED <<prices, request, amount_in_cents, price_id, sub_mode, startLen, doneAtStart, wvars>>

Next == \E r \in Reqs : Begin(r) \/ Lookup(r) \/ Create(r) \/ Session(r)

Spec == Init /\ [][Next]_vars

(* ---------------------------------------------------------------------- *)
(* /webhook (app.py:79-119)                                                *)
(* ---------------------------------------------------------------------- *)

Payloads == {"json", "malformed"}

SigHeaders == {"valid", "mismatch", "missing"}

EventTypes == {"checkout.session.completed", "payment_intent.succeeded"}

\* customer_email of the embedded session: an address, or null
CustomerEmails == {"a@b.com", "null"}

\* stripe.Webhook.construct_event(payload, sig_header, webhook_secret): the
\* header is verified first, the payload parsed after.
construct_event(req) ==
    IF req.sig_header # "valid"
    THEN [raises |-> "SignatureVerificationError",
          event |-> [type |-> "", customer_email |-> ""]]
    ELSE IF req.payload # "json"
    THEN [raises |-> "ValueError", event |-> [type |-> "", customer_email |-> ""]]
    ELSE [raises |-> "", event |-> [type |-> req.type, customer_email |-> req.customer_email]]

\* payload = await request.body(); sig_header = request.headers.get(...)
WReceive(w) ==
    /\ wpc[w] = "idle"
    /\ \E b \in Payloads, h \in SigHeaders, t \in EventTypes, e \in CustomerEmails :
         wrequest' = [wrequest EXCEPT ![w] =
                        [payload |-> b, sig_header |-> h, type |-> t, customer_email |-> e]]
    /\ wpc' = [wpc EXCEPT ![w] = "verify"]
    /\ UNCHANGED <<event, wread, wlog, wresponse, cvars>>

\* Mutant: the verification error is caught and the unverified event dispatched.
WVerifyIgnored(w) ==
    /\ wpc[w] = "verify"
    /\ event' = [event EXCEPT ![w] =
                   [type |-> wrequest[w].type, customer_email |-> wrequest[w].customer_email]]
    /\ wpc' = [wpc EXCEPT ![w] = "dispatch"]
    /\ UNCHANGED <<wrequest, wread, wlog, wresponse, cvars>>

\* try: event = construct_event(...) except ValueError / SignatureVerificationError
WVerify(w) ==
    /\ wpc[w] = "verify"
    /\ LET c == construct_event(wrequest[w])
       IN  IF c.raises = "ValueError"
           THEN /\ wresponse' = [wresponse EXCEPT ![w] = HTTPException("Invalid payload: ", "ValueError")]
                /\ wpc' = [wpc EXCEPT ![w] = "done"]
                /\ UNCHANGED event
           ELSE IF c.raises = "SignatureVerificationError"
           THEN /\ wresponse' = [wresponse EXCEPT ![w] =
                                   HTTPException("Invalid signature: ", "SignatureVerificationError")]
                /\ wpc' = [wpc EXCEPT ![w] = "done"]
                /\ UNCHANGED event
           ELSE /\ event' = [event EXCEPT ![w] = c.event]
                /\ wpc' = [wpc EXCEPT ![w] = "dispatch"]
                /\ UNCHANGED wresponse
    /\ UNCHANGED <<wrequest, wread, wlog, cvars>>

\* Mutant: an unhandled event type is an error.
WDispatchStrict(w) ==
    /\ wpc[w] = "dispatch"
    /\ wread' = [wread EXCEPT ![w] = @ \cup {"type"}]
    /\ IF event[w].type = "checkout.session.completed"
       THEN /\ wlog' = [wlog EXCEPT ![w] =
                          Append(@, <<"Checkout session completed with email: ",
                                      event[w].customer_email>>)]
            /\ wpc' = [wpc EXCEPT ![w] = "respond"]
            /\ UNCHANGED wresponse
       ELSE /\ wresponse' = [wresponse EXCEPT ![w] = [status |-> 500, url |-> 0, detail |-> << >>]]
            /\ wpc' = [wpc EXCEPT ![w] = "done"]
            /\ UNCHANGED wlog
    /\ UNCHANGED <<wrequest, event, cvars>>

\* if event['type'] == 'checkout.session.completed': ... else: ...
WDispatch(w) ==
    /\ wpc[w] = "dispatch"
    /\ IF event[w].type = "checkout.session.completed"
       THEN /\ wread' = [wread EXCEPT ![w] = @ \cup {"type", "data.object", "customer_email"}]
            /\ wlog' = [wlog EXCEPT ![w] =
                          Append(@, <<"Checkout session completed with email: ",
                                      event[w].customer_email>>)]
       ELSE /\ wread' = [wread EXCEPT ![w] = @ \cup {"type"}]
            /\ wlog' = [wlog EXCEPT ![w] = Append(@, <<"Unhandled event type ", event[w].type>>)]
    /\ wpc' = [wpc EXCEPT ![w] = "respond"]
    /\ UNCHANGED <<wrequest, event, wresponse, cvars>>

\* return JSONResponse({"success": True})
WRespond(w) ==
    /\ wpc[w] = "respond"
    /\ wresponse' = [wresponse EXCEPT ![w] = [status |-> 200, url |-> 0, detail |-> <<"success", "True">>]]
    /\ wpc' = [wpc EXCEPT ![w] = "done"]
    /\ UNCHANGED <<wrequest, event, wread, wlog, cvars>>

WHandle(w) == WVerify(w) \/ WDispatch(w) \/ WRespond(w)

WebhookNext == \E w \in WReqs : WReceive(w) \/ WVerify(w) \/ WDispatch(w) \/ WRespond(w)

\* The webhook handler makes no provider call: the provider starts empty.
WebhookInit == Init /\ prices = << >>

\* A handler that has started runs to its return or its raise.
WebhookSpec == WebhookInit /\ [][WebhookNext]_vars /\ \A w \in WReqs : WF_vars(WHandle(w))


(* ---------------------------------------------------------------------- *)
(* Properties                                                              *)
(* ---------------------------------------------------------------------- *)

Ops(r) == [i \in 1..Len(calls[r]) |-> calls[r][i].op]

CallsOf(r, op) == {i \in 1..Len(calls[r]) : calls[r][i].op = op}

Failed(r) == \E i \in 1..Len(calls[r]) : ~calls[r][i].ok

IsCustom(r) == pc[r] # "idle" /\ request[r].subscription_type = "custom"

IsStandard(r) == pc[r] # "idle" /\ request[r].subscription_type = "standard"

IsInvalid(r) == pc[r] # "idle" /\ request[r].subscription_type \notin {"standard", "custom"}

\* the price ids of the configured product with the given amount, in eur,
\* among the first n prices created
Matching(n, amount) ==
    {prices[i].id : i \in {j \in 1..n : /\ prices[j].product = custom_sub_id
                                        /\ prices[j].unit_amount = amount
                                        /\ prices[j].currency = DefaultCurrency}}

\* C1: the provider never holds two prices of the configured product with the
\* same unit_amount and currency, whatever the interleaving of the requests
\* and however many prices the product already has.
C1_NoDuplicatePrices ==
    \A i, j \in 1..Len(prices) :
        (/\ i # j
         /\ prices[i].product = custom_sub_id
         /\ prices[j].product = custom_sub_id
         /\ prices[i].currency = prices[j].currency)
        => prices[i].unit_amount # prices[j].unit_amount

\* C2: when a matching price exists, two custom runs in succession with the
\* same amount create no price, and both sessions use the existing price's id.
C2_CustomFlowIdempotent ==
    \A r1, r2 \in Reqs :
        (/\ r1 # r2
         /\ IsCustom(r1) /\ IsCustom(r2)
         /\ pc[r1] = "done" /\ pc[r2] = "done"
         /\ r1 \in doneAtStart[r2]
         /\ amount_in_cents[r1] = amount_in_cents[r2]
         /\ Matching(startLen[r1], amount_in_cents[r1]) # {}
         /\ response[r1].status = 200 /\ response[r2].status = 200)
        => \A r \in {r1, r2} :
              /\ CallsOf(r, "Price.create") = {}
              /\ \A i \in CallsOf(r, "Session.create") :
                    calls[r][i].price \in Matching(startLen[r1], amount_in_cents[r1])

\* C3: a standard request passes the configured standard price id and mode
\* "subscription" to session creation, and neither looks up nor creates a price.
C3_StandardUsesConfiguredPrice ==
    \A r \in Reqs :
        IsStandard(r) =>
            /\ \A i \in 1..Len(calls[r]) :
                  /\ calls[r][i].op = "Session.create"
                  /\ calls[r][i].price = standard_price_id
                  /\ calls[r][i].mode = "subscription"
            /\ pc[r] \in {"session", "done"}
            /\ pc[r] = "done" => Len(calls[r]) = 1
            /\ response[r].status = 200 =>
                  /\ sessions[response[r].url].line_items[1].price = standard_price_id
                  /\ sessions[response[r].url].mode = "subscription"

C3_Witness ==
    \E r \in Reqs :
        /\ IsStandard(r) /\ request[r].price.dec = 19990
        /\ pc[r] = "done" /\ response[r].status = 200

\* C4: a custom request with price P looks up and creates its price with the
\* amount floor(P * 100), negative and fractional-cent P included.
C4_AmountIsFloor ==
    \A r \in Reqs :
        IsCustom(r) =>
            /\ amount_in_cents[r] = FloorCents(request[r].price)
            /\ \A i \in CallsOf(r, "Price.list") \cup CallsOf(r, "Price.create") :
                  calls[r][i].amount = FloorCents(request[r].price)

\* C5: a request whose subscription_type is neither "standard" nor "custom"
\* fails with a 400 and a message, issues no provider call, and leaves the
\* provider's prices and sessions as they were.
C5_InvalidTypeRejected ==
    /\ \A r \in Reqs :
          IsInvalid(r) =>
              /\ pc[r] = "done"
              /\ response[r].status = 400
              /\ response[r].detail = <<"An error occurred: ", InvalidTypeMessage>>
              /\ calls[r] = << >>
    /\ (\A r \in Reqs : pc[r] = "idle" \/ IsInvalid(r)) =>
          prices \in InitialStores /\ sessions = << >>

C5_Witness ==
    \A r \in Reqs : IsInvalid(r) /\ pc[r] = "done" /\ response[r].status = 400

\* C8: a failed step ends the request with a 400 carrying a message (the
\* provider's for a provider error), and no success payload follows a failure.
C8_FailureYields400 ==
    \A r \in Reqs :
        /\ Failed(r) =>
              /\ pc[r] = "done"
              /\ response[r].status = 400
              /\ \E m \in ProviderMessages : response[r].detail = <<"Stripe error: ", m>>
        /\ IsInvalid(r) => response[r].status = 400 /\ Len(response[r].detail) = 2
        /\ response[r].status = 200 =>
              /\ ~Failed(r)
              /\ response[r].url \in 1..Len(sessions)
        /\ pc[r] = "done" => response[r].status \in {200, 400}

C8_Witness ==
    \E r \in Reqs :
        /\ pc[r] = "done" /\ response[r].status = 400
        /\ Len(calls[r]) = 2 /\ calls[r][2].op = "Price.create" /\ ~calls[r][2].ok

\* C9: a custom request with price P (19.99, amount 1999) and no matching price
\* creates exactly one price with that amount, "eur" and the configured
\* product, then a "payment" session whose single line item, quantity 1,
\* references the new price, and returns the session's url.
C9_NewPriceCreated ==
    \A r \in Reqs :
        (/\ IsCustom(r)
         /\ pc[r] = "done" /\ response[r].status = 200
         /\ calls[r][1].result = None)
        => /\ Ops(r) = <<"Price.list", "Price.create", "Session.create">>
           /\ LET new == calls[r][2].result
                  s == sessions[response[r].url]
              IN  /\ prices[new.n].id = new
                  /\ prices[new.n].unit_amount = FloorCents(request[r].price)
                  /\ prices[new.n].currency = "eur"
                  /\ prices[new.n].product = custom_sub_id
                  /\ s.mode = "payment"
                  /\ s.line_items = << [price |-> new, quantity |-> 1] >>

\* C10: within a request the provider calls are lookup, then creation only if
\* the lookup found nothing, then session creation; each at most once, and no
\* call follows a failed one.
C10_CallOrder ==
    \A r \in Reqs :
        /\ \A i \in 1..Len(calls[r]) : ~calls[r][i].ok => (i = Len(calls[r]) /\ pc[r] = "done")
        /\ \A op \in {"Price.list", "Price.create", "Session.create"} :
              Cardinality(CallsOf(r, op)) <= 1
        /\ IsStandard(r) => Ops(r) \in {<< >>, <<"Session.create">>}
        /\ IsInvalid(r) => Ops(r) = << >>
        /\ IsCustom(r) =>
              /\ Ops(r) \in {<< >>, <<"Price.list">>, <<"Price.list", "Price.create">>,
                             <<"Price.list", "Session.create">>,
                             <<"Price.list", "Price.create", "Session.create">>}
              /\ Len(calls[r]) >= 2 =>
                    (calls[r][2].op = "Price.create" <=> calls[r][1].result = None)

C10_Witness ==
    \E r, q \in Reqs :
        /\ pc[r] = "done" /\ Ops(r) = <<"Price.list", "Price.create", "Session.create">>
        /\ pc[q] = "done" /\ Ops(q) = <<"Price.list">> /\ ~calls[q][1].ok

Verified(w) == construct_event(wrequest[w]).raises = ""

\* C6: a webhook whose verification fails is answered 400 and its event is
\* never dispatched: no field of the event is read and neither branch is taken.
C6_UnverifiedNeverDispatched ==
    \A w \in WReqs :
        (wpc[w] \notin {"idle", "verify"} /\ ~Verified(w)) =>
            /\ wpc[w] = "done"
            /\ wresponse[w].status = 400
            /\ wread[w] = {}
            /\ wlog[w] = << >>
            /\ event[w].type = ""

C6_Witness ==
    \E w, x \in WReqs :
        /\ wpc[w] = "done" /\ wrequest[w].sig_header = "mismatch" /\ wresponse[w].status = 400
        /\ wpc[x] = "done" /\ wrequest[x].sig_header = "valid"
        /\ wrequest[x].payload = "malformed" /\ wresponse[x].status = 400

Acknowledged(w) ==
    /\ wpc[w] = "done"
    /\ wresponse[w] = [status |-> 200, url |-> 0, detail |-> <<"success", "True">>]
    /\ event[w].type = "checkout.session.completed" => "customer_email" \in wread[w]
    /\ event[w].type # "checkout.session.completed" => wread[w] = {"type"}

====
